---- MODULE Spec2Model ----
(***************************************************************************)
(* Reservation system: hotels, customers and reservations, each kept as a  *)
(* JSON list in its own file (src/src/models.py, storage.py, services.py). *)
(*                                                                         *)
(* Strings are sequences of characters.  A character is " " (whitespace)   *)
(* or a non-blank symbol; the 36 characters of a uuid4 string are written  *)
(* as one non-blank symbol ("u1", "u2", ...), and so are the words ACTIVE  *)
(* and CANCELLED.  None is the empty sequence <<>> of an Optional, Some(x)  *)
(* is <<x>>.                                                                *)
(***************************************************************************)
EXTENDS Integers, Sequences, FiniteSets, TLC

\* ------------------------------------------------------------------ bounds

\* create_hotel, create_customer and the reservation constructor call
\* uuid4() at most this many times each in a run.
MaxHotels == 2
MaxCustomers == 1
MaxReservations == 2

\* Callers that may have a reservation call in flight at the same time.
MaxProcs == 2

\* ----------------------------------------------------------------- strings

Whitespace == {" "}

RECURSIVE lstrip(_)
lstrip(s) == IF s # <<>> /\ Head(s) \in Whitespace THEN lstrip(Tail(s)) ELSE s

RECURSIVE rstrip(_)
rstrip(s) ==
    IF s # <<>> /\ s[Len(s)] \in Whitespace
    THEN rstrip(SubSeq(s, 1, Len(s) - 1))
    ELSE s

\* str.strip()
strip(s) == rstrip(lstrip(s))

ACTIVE == <<"ACTIVE">>
CANCELLED == <<"CANCELLED">>

None == <<>>
Some(x) == <<x>>

\* str(uuid4()): a fresh string without whitespace.  The n-th one drawn for
\* a hotel is written "h"n, for a customer "c"n, for a reservation "r"n.
UuidSymbols ==
    [Hotel |-> <<"h1", "h2", "h3", "h4">>,
     Customer |-> <<"c1", "c2", "c3", "c4">>,
     Reservation |-> <<"r1", "r2", "r3", "r4">>]
uuid4(kind, n) == <<UuidSymbols[kind][n]>>

\* ------------------------------------------------------------------ models

\* _require_str(data.get(field), field) does not raise.  A field that is
\* absent stands for a value that is no str (data.get gives None).
require_str_ok(data, field) ==
    field \in DOMAIN data /\ strip(data[field]) # <<>>

\* _require_int(data.get(field), field, min_value) does not raise.  A field
\* that is absent stands for a value that is no int.
require_int_ok(data, field, min_value) ==
    field \in DOMAIN data /\ data[field] >= min_value

\* The ValueError Hotel.from_dict raises on data, "" when it raises none.
Hotel_from_dict_error(data) ==
    IF ~require_str_ok(data, "hotel_id") THEN "Invalid 'hotel_id'"
    ELSE IF ~require_str_ok(data, "name") THEN "Invalid 'name'"
    ELSE IF ~require_str_ok(data, "location") THEN "Invalid 'location'"
    ELSE IF ~require_int_ok(data, "total_rooms", 1) THEN "Invalid 'total_rooms'"
    ELSE ""

Hotel_from_dict(data) ==
    [hotel_id |-> strip(data.hotel_id),
     name |-> strip(data.name),
     location |-> strip(data.location),
     total_rooms |-> data.total_rooms]

Hotel_to_dict(h) ==
    [hotel_id |-> h.hotel_id,
     name |-> h.name,
     location |-> h.location,
     total_rooms |-> h.total_rooms]

Customer_from_dict_error(data) ==
    IF ~require_str_ok(data, "customer_id") THEN "Invalid 'customer_id'"
    ELSE IF ~require_str_ok(data, "name") THEN "Invalid 'name'"
    ELSE IF ~require_str_ok(data, "email") THEN "Invalid 'email'"
    ELSE ""

Customer_from_dict(data) ==
    [customer_id |-> strip(data.customer_id),
     name |-> strip(data.name),
     email |-> strip(data.email)]

Customer_to_dict(c) ==
    [customer_id |-> c.customer_id, name |-> c.name, email |-> c.email]

\* data.get("status", "ACTIVE")
status_of(data) == IF "status" \in DOMAIN data THEN data.status ELSE ACTIVE

Reservation_from_dict_error(data) ==
    IF ~require_str_ok(data, "reservation_id") THEN "Invalid 'reservation_id'"
    ELSE IF ~require_str_ok(data, "hotel_id") THEN "Invalid 'hotel_id'"
    ELSE IF ~require_str_ok(data, "customer_id") THEN "Invalid 'customer_id'"
    ELSE IF strip(status_of(data)) = <<>> THEN "Invalid 'status'"
    ELSE IF strip(status_of(data)) \notin {ACTIVE, CANCELLED} THEN "Invalid 'status'"
    ELSE ""

\* Mutant of Reservation_from_dict: the stored status is not read.
Reservation_from_dict_default_status(data) ==
    [reservation_id |-> strip(data.reservation_id),
     hotel_id |-> strip(data.hotel_id),
     customer_id |-> strip(data.customer_id),
     status |-> ACTIVE]

Reservation_from_dict(data) ==
    [reservation_id |-> strip(data.reservation_id),
     hotel_id |-> strip(data.hotel_id),
     customer_id |-> strip(data.customer_id),
     status |-> strip(status_of(data))]

\* Mutant of Reservation_to_dict: the status is not written.
Reservation_to_dict_no_status(r) ==
    [reservation_id |-> r.reservation_id,
     hotel_id |-> r.hotel_id,
     customer_id |-> r.customer_id]

Reservation_to_dict(r) ==
    [reservation_id |-> r.reservation_id,
     hotel_id |-> r.hotel_id,
     customer_id |-> r.customer_id,
     status |-> r.status]

is_active(r) == r.status = ACTIVE

\* Mutant of cancelled: hotel_id and customer_id change places in the copy.
cancelled_swaps_ids(r) ==
    [reservation_id |-> r.reservation_id,
     hotel_id |-> r.customer_id,
     customer_id |-> r.hotel_id,
     status |-> CANCELLED]

\* Mutant of cancelled: the copy keeps the status.
cancelled_keeps_status(r) ==
    [reservation_id |-> r.reservation_id,
     hotel_id |-> r.hotel_id,
     customer_id |-> r.customer_id,
     status |-> r.status]

\* Reservation.cancelled(): a copy with CANCELLED status
cancelled(r) ==
    [reservation_id |-> r.reservation_id,
     hotel_id |-> r.hotel_id,
     customer_id |-> r.customer_id,
     status |-> CANCELLED]

\* ----------------------------------------------------------------- storage

\* A file is [kind, items].  kind says what is on disk:
\*   "missing"       no file (before the first save)
\*   "list"          a JSON list; items are its elements
\*   "not_list"      JSON of another value (a dict, a number, ...)
\*   "invalid_json"  text json.loads rejects (an empty file is one)
\*   "unreadable"    read_text raises OSError
\*   "undecodable"   bytes that are not UTF-8: read_text raises
\*                   UnicodeDecodeError
\* An element of a JSON list is a dict, written as a record, or any other
\* value (a number, a string, ...), written NonDict(v) with v its JSON text.
MissingFile == [kind |-> "missing", items |-> <<>>]

NonDict(v) == [scalar |-> v]

\* isinstance(item, dict)
is_dict(item) == "scalar" \notin DOMAIN item

\* A printed line: the message, and for an invalid entity the file and the
\* ValueError it reports.
Diag(msg) == [msg |-> msg, file |-> "", detail |-> ""]
InvalidEntity(path, err) ==
    [msg |-> "[ERROR] Invalid entity", file |-> path, detail |-> err]

\* A line load_list prints about the file at path.
StoreDiag(msg, path) == [msg |-> msg, file |-> path, detail |-> ""]

\* load_list lets this exception through: it catches json.JSONDecodeError
\* and OSError only ("" when it returns).
load_list_raises(file) ==
    IF file.kind = "undecodable" THEN "UnicodeDecodeError" ELSE ""

\* Mutant of load_list: a list with an element that is no dict is given up.
load_list_all_or_nothing(file) ==
    IF file.kind = "list" /\ \A i \in 1..Len(file.items) : is_dict(file.items[i])
    THEN file.items
    ELSE <<>>

\* JsonStore.load_list, when it returns: the dicts of a JSON list in file
\* order, [] for anything else.
load_list(file) ==
    IF file.kind = "list" THEN SelectSeq(file.items, is_dict) ELSE <<>>

\* Mutant of load_list_out: one line however many elements are skipped.
load_list_out_once(file, path) ==
    CASE file.kind = "invalid_json" -> <<StoreDiag("[ERROR] Invalid JSON", path)>>
      [] file.kind = "unreadable" -> <<StoreDiag("[ERROR] Could not read", path)>>
      [] file.kind = "not_list" ->
             <<StoreDiag("[ERROR] Invalid data: expected a list.", path)>>
      [] file.kind = "list" ->
             IF \E i \in 1..Len(file.items) : ~is_dict(file.items[i])
             THEN <<StoreDiag("[ERROR] Invalid item: expected dict.", path)>>
             ELSE <<>>
      [] OTHER -> <<>>

\* The lines load_list prints.
load_list_out(file, path) ==
    CASE file.kind = "invalid_json" -> <<StoreDiag("[ERROR] Invalid JSON", path)>>
      [] file.kind = "unreadable" -> <<StoreDiag("[ERROR] Could not read", path)>>
      [] file.kind = "not_list" ->
             <<StoreDiag("[ERROR] Invalid data: expected a list.", path)>>
      [] file.kind = "list" ->
             LET skipped == SelectSeq(file.items, LAMBDA item : ~is_dict(item))
             IN  [i \in 1..Len(skipped) |->
                     StoreDiag("[ERROR] Invalid item: expected dict.", path)]
      [] OTHER -> <<>>

\* JsonStore.save_list: the whole file is overwritten
save_list(items) == [kind |-> "list", items |-> items]

\* factory(item) raises this ValueError ("" when none); factory names the
\* from_dict passed to load_entities.
factory_error(factory, item) ==
    CASE factory = "Hotel" -> Hotel_from_dict_error(item)
      [] factory = "Customer" -> Customer_from_dict_error(item)
      [] factory = "Reservation" -> Reservation_from_dict_error(item)

factory_call(factory, item) ==
    CASE factory = "Hotel" -> Hotel_from_dict(item)
      [] factory = "Customer" -> Customer_from_dict(item)
      [] factory = "Reservation" -> Reservation_from_dict(item)

\* Mutant of load_entities: the first dict the factory rejects ends the loop.
load_entities_until_invalid(file, factory) ==
    LET items == load_list(file)
        bad == {i \in 1..Len(items) : factory_error(factory, items[i]) # ""}
        valid == SelectSeq(items, LAMBDA item : factory_error(factory, item) = "")
        n == IF bad = {} THEN Len(items)
             ELSE (CHOOSE i \in bad : \A j \in bad : i <= j) - 1
    IN  [i \in 1..n |-> factory_call(factory, valid[i])]

\* JsonStore.load_entities: the entities the factory builds, in file order;
\* a dict the factory rejects is skipped.
load_entities(file, factory) ==
    LET valid == SelectSeq(load_list(file),
                           LAMBDA item : factory_error(factory, item) = "")
    IN  [i \in 1..Len(valid) |-> factory_call(factory, valid[i])]

\* The lines load_entities prints: those of load_list, then one per dict the
\* factory rejects.
load_entities_out(file, path, factory) ==
    LET bad == SelectSeq(load_list(file),
                         LAMBDA item : factory_error(factory, item) # "")
    IN  load_list_out(file, path)
        \o [i \in 1..Len(bad) |-> InvalidEntity(path, factory_error(factory, bad[i]))]

\* ---------------------------------------------------------------- services

\* What a service method leaves behind: the file it may have rewritten, the
\* value it returns (None, Some(entity), or a bool) and the lines it printed.
Outcome(file, ret, out) == [file |-> file, ret |-> ret, out |-> out]

\* [x.to_dict() for x in entities]
hotels_to_dicts(hotels) == [i \in 1..Len(hotels) |-> Hotel_to_dict(hotels[i])]
customers_to_dicts(customers) ==
    [i \in 1..Len(customers) |-> Customer_to_dict(customers[i])]
reservations_to_dicts(reservations) ==
    [i \in 1..Len(reservations) |-> Reservation_to_dict(reservations[i])]

\* HotelService.create_hotel; uuid is str(uuid4())
HotelService_create_hotel(hotels_file, uuid, name, location, total_rooms) ==
    LET hotel == [hotel_id |-> uuid,
                  name |-> strip(name),
                  location |-> strip(location),
                  total_rooms |-> total_rooms]
        hotels == Append(load_entities(hotels_file, "Hotel"), hotel)
    IN  Outcome(save_list(hotels_to_dicts(hotels)),
                hotel,
                load_entities_out(hotels_file, "hotels.json", "Hotel"))

\* Mutant of HotelService_delete_hotel: True whenever a hotel is left.
HotelService_delete_hotel_any_left(hotels_file, hotel_id) ==
    LET hotels == load_entities(hotels_file, "Hotel")
        kept == SelectSeq(hotels, LAMBDA h : h.hotel_id # hotel_id)
    IN  Outcome(save_list(hotels_to_dicts(kept)),
                Len(kept) # 0,
                load_entities_out(hotels_file, "hotels.json", "Hotel"))

\* HotelService.delete_hotel
HotelService_delete_hotel(hotels_file, hotel_id) ==
    LET hotels == load_entities(hotels_file, "Hotel")
        kept == SelectSeq(hotels, LAMBDA h : h.hotel_id # hotel_id)
    IN  Outcome(save_list(hotels_to_dicts(kept)),
                Len(kept) # Len(hotels),
                load_entities_out(hotels_file, "hotels.json", "Hotel"))

\* HotelService.get_hotel: Some(the first hotel with that id), or None
HotelService_get_hotel(hotels_file, hotel_id) ==
    LET found == SelectSeq(load_entities(hotels_file, "Hotel"),
                           LAMBDA h : h.hotel_id = hotel_id)
    IN  IF found = <<>> THEN None ELSE Some(found[1])

\* Mutant of merged_hotel: a total_rooms left out becomes one room.
merged_hotel_defaults_rooms(hotel, name, location, total_rooms) ==
    [hotel_id |-> hotel.hotel_id,
     name |-> IF name = None THEN hotel.name ELSE strip(name[1]),
     location |-> IF location = None THEN hotel.location ELSE strip(location[1]),
     total_rooms |-> IF total_rooms = None THEN 1 ELSE total_rooms[1]]

\* modify_hotel lines 70-72: the field values after the partial update
merged_hotel(hotel, name, location, total_rooms) ==
    [hotel_id |-> hotel.hotel_id,
     name |-> IF name = None THEN hotel.name ELSE strip(name[1]),
     location |-> IF location = None THEN hotel.location ELSE strip(location[1]),
     total_rooms |-> IF total_rooms = None THEN hotel.total_rooms ELSE total_rooms[1]]

\* Mutant of invalid_hotel_modification: total_rooms is not checked.
invalid_hotel_modification_no_rooms(new) == new.name = <<>> \/ new.location = <<>>

\* modify_hotel line 74
invalid_hotel_modification(new) ==
    new.name = <<>> \/ new.location = <<>> \/ new.total_rooms < 1

\* HotelService.modify_hotel
HotelService_modify_hotel(hotels_file, hotel_id, name, location, total_rooms) ==
    LET hotels == load_entities(hotels_file, "Hotel")
        new(h) == merged_hotel(h, name, location, total_rooms)
        rejected(h) == h.hotel_id = hotel_id /\ invalid_hotel_modification(new(h))
        applied(h) == h.hotel_id = hotel_id /\ ~invalid_hotel_modification(new(h))
        updated == [i \in 1..Len(hotels) |->
                       IF applied(hotels[i]) THEN new(hotels[i]) ELSE hotels[i]]
        refused == SelectSeq(hotels, rejected)
    IN  Outcome(save_list(hotels_to_dicts(updated)),
                \E i \in 1..Len(hotels) : applied(hotels[i]),
                load_entities_out(hotels_file, "hotels.json", "Hotel")
                \o [i \in 1..Len(refused) |->
                       Diag("[ERROR] Invalid hotel modification data.")])

\* Mutant of active_count: the ACTIVE reservations of every hotel are counted.
active_count_all_hotels(reservations, hotel_id) ==
    Len(SelectSeq(reservations, LAMBDA r : is_active(r)))

\* reserve_room lines 100-102
active_count(reservations, hotel_id) ==
    Len(SelectSeq(reservations, LAMBDA r : r.hotel_id = hotel_id /\ is_active(r)))

\* Mutant of no_rooms_available: the comparison is strict.
no_rooms_available_strict(count, hotel) == count > hotel.total_rooms

\* reserve_room line 103
no_rooms_available(count, hotel) == count >= hotel.total_rooms

\* Mutant of HotelService_reserve_room: the list that is saved is the one
\* the rooms were counted on, the ACTIVE reservations, plus the new one.
HotelService_reserve_room_saves_active_only(hotels_file, reservations_file, uuid, hotel_id, customer_id) ==
    LET hotel == HotelService_get_hotel(hotels_file, hotel_id)
        hotels_out == load_entities_out(hotels_file, "hotels.json", "Hotel")
        reservations == load_entities(reservations_file, "Reservation")
        reservations_out ==
            load_entities_out(reservations_file, "reservations.json", "Reservation")
        reservation == [reservation_id |-> uuid,
                        hotel_id |-> hotel_id,
                        customer_id |-> customer_id,
                        status |-> ACTIVE]
    IN  IF hotel = None
        THEN Outcome(reservations_file, None,
                     hotels_out \o <<Diag("[ERROR] Hotel not found.")>>)
        ELSE IF no_rooms_available(active_count(reservations, hotel_id), hotel[1])
        THEN Outcome(reservations_file, None,
                     hotels_out \o reservations_out
                     \o <<Diag("[ERROR] No rooms available.")>>)
        ELSE Outcome(save_list(reservations_to_dicts(
                         Append(SelectSeq(reservations, is_active), reservation))),
                     Some(reservation),
                     hotels_out \o reservations_out)

\* Mutant of HotelService_reserve_room: the loaded reservations are written
\* back when no room is available.
HotelService_reserve_room_saves_on_failure(hotels_file, reservations_file, uuid, hotel_id, customer_id) ==
    LET hotel == HotelService_get_hotel(hotels_file, hotel_id)
        hotels_out == load_entities_out(hotels_file, "hotels.json", "Hotel")
        reservations == load_entities(reservations_file, "Reservation")
        reservations_out ==
            load_entities_out(reservations_file, "reservations.json", "Reservation")
        reservation == [reservation_id |-> uuid,
                        hotel_id |-> hotel_id,
                        customer_id |-> customer_id,
                        status |-> ACTIVE]
    IN  IF hotel = None
        THEN Outcome(reservations_file, None,
                     hotels_out \o <<Diag("[ERROR] Hotel not found.")>>)
        ELSE IF no_rooms_available(active_count(reservations, hotel_id), hotel[1])
        THEN Outcome(save_list(reservations_to_dicts(reservations)), None,
                     hotels_out \o reservations_out
                     \o <<Diag("[ERROR] No rooms available.")>>)
        ELSE Outcome(save_list(reservations_to_dicts(Append(reservations, reservation))),
                     Some(reservation),
                     hotels_out \o reservations_out)

\* HotelService.reserve_room; uuid is str(uuid4()), drawn only when a
\* reservation is built
HotelService_reserve_room(hotels_file, reservations_file, uuid, hotel_id, customer_id) ==
    LET hotel == HotelService_get_hotel(hotels_file, hotel_id)
        hotels_out == load_entities_out(hotels_file, "hotels.json", "Hotel")
        reservations == load_entities(reservations_file, "Reservation")
        reservations_out ==
            load_entities_out(reservations_file, "reservations.json", "Reservation")
        reservation == [reservation_id |-> uuid,
                        hotel_id |-> hotel_id,
                        customer_id |-> customer_id,
                        status |-> ACTIVE]
    IN  IF hotel = None
        THEN Outcome(reservations_file, None,
                     hotels_out \o <<Diag("[ERROR] Hotel not found.")>>)
        ELSE IF no_rooms_available(active_count(reservations, hotel_id), hotel[1])
        THEN Outcome(reservations_file, None,
                     hotels_out \o reservations_out
                     \o <<Diag("[ERROR] No rooms available.")>>)
        ELSE Outcome(save_list(reservations_to_dicts(Append(reservations, reservation))),
                     Some(reservation),
                     hotels_out \o reservations_out)

\* Mutant of cancellable: the status is not looked at.
cancellable_any_status(res, reservation_id) == res.reservation_id = reservation_id

\* cancel_reservation line 124
cancellable(res, reservation_id) ==
    res.reservation_id = reservation_id /\ is_active(res)

\* Mutant of HotelService_cancel_reservation: a reservation that is already
\* CANCELLED gets a line of its own.
HotelService_cancel_reservation_two_messages(reservations_file, reservation_id) ==
    LET reservations == load_entities(reservations_file, "Reservation")
        updated == [i \in 1..Len(reservations) |->
                       IF cancellable(reservations[i], reservation_id)
                       THEN cancelled(reservations[i])
                       ELSE reservations[i]]
        changed == \E i \in 1..Len(reservations) :
                       cancellable(reservations[i], reservation_id)
        found == \E i \in 1..Len(reservations) :
                     reservations[i].reservation_id = reservation_id
    IN  Outcome(save_list(reservations_to_dicts(updated)),
                changed,
                load_entities_out(reservations_file, "reservations.json", "Reservation")
                \o (IF changed THEN <<>>
                    ELSE IF found THEN <<Diag("[ERROR] Reservation already cancelled.")>>
                    ELSE <<Diag("[ERROR] Reservation not found.")>>))

\* HotelService.cancel_reservation
HotelService_cancel_reservation(reservations_file, reservation_id) ==
    LET reservations == load_entities(reservations_file, "Reservation")
        updated == [i \in 1..Len(reservations) |->
                       IF cancellable(reservations[i], reservation_id)
                       THEN cancelled(reservations[i])
                       ELSE reservations[i]]
        changed == \E i \in 1..Len(reservations) :
                       cancellable(reservations[i], reservation_id)
    IN  Outcome(save_list(reservations_to_dicts(updated)),
                changed,
                load_entities_out(reservations_file, "reservations.json", "Reservation")
                \o (IF changed THEN <<>>
                    ELSE <<Diag("[ERROR] Reservation not found or already cancelled.")>>))

\* CustomerService.create_customer; uuid is str(uuid4())
CustomerService_create_customer(customers_file, uuid, name, email) ==
    LET customer == [customer_id |-> uuid, name |-> strip(name), email |-> strip(email)]
        customers == Append(load_entities(customers_file, "Customer"), customer)
    IN  Outcome(save_list(customers_to_dicts(customers)),
                customer,
                load_entities_out(customers_file, "customers.json", "Customer"))

\* CustomerService.delete_customer
CustomerService_delete_customer(customers_file, customer_id) ==
    LET customers == load_entities(customers_file, "Customer")
        kept == SelectSeq(customers, LAMBDA c : c.customer_id # customer_id)
    IN  Outcome(save_list(customers_to_dicts(kept)),
                Len(kept) # Len(customers),
                load_entities_out(customers_file, "customers.json", "Customer"))

\* CustomerService.get_customer: Some(the first customer with that id), or None
CustomerService_get_customer(customers_file, customer_id) ==
    LET found == SelectSeq(load_entities(customers_file, "Customer"),
                           LAMBDA c : c.customer_id = customer_id)
    IN  IF found = <<>> THEN None ELSE Some(found[1])

\* modify_customer lines 187-188
merged_customer(customer, name, email) ==
    [customer_id |-> customer.customer_id,
     name |-> IF name = None THEN customer.name ELSE strip(name[1]),
     email |-> IF email = None THEN customer.email ELSE strip(email[1])]

\* modify_customer line 189
invalid_customer_modification(new) == new.name = <<>> \/ new.email = <<>>

\* CustomerService.modify_customer
CustomerService_modify_customer(customers_file, customer_id, name, email) ==
    LET customers == load_entities(customers_file, "Customer")
        new(c) == merged_customer(c, name, email)
        rejected(c) ==
            c.customer_id = customer_id /\ invalid_customer_modification(new(c))
        applied(c) ==
            c.customer_id = customer_id /\ ~invalid_customer_modification(new(c))
        updated == [i \in 1..Len(customers) |->
                       IF applied(customers[i]) THEN new(customers[i]) ELSE customers[i]]
        refused == SelectSeq(customers, rejected)
    IN  Outcome(save_list(customers_to_dicts(updated)),
                \E i \in 1..Len(customers) : applied(customers[i]),
                load_entities_out(customers_file, "customers.json", "Customer")
                \o [i \in 1..Len(refused) |->
                       Diag("[ERROR] Invalid customer modification data.")])

\* Mutant of ReservationService_create_reservation: the hotel is looked up
\* before the customer.
ReservationService_create_reservation_hotel_first(customers_file, hotels_file, reservations_file, uuid, hotel_id, customer_id) ==
    LET customers_out == load_entities_out(customers_file, "customers.json", "Customer")
        hotels_out == load_entities_out(hotels_file, "hotels.json", "Hotel")
        reserved == HotelService_reserve_room(hotels_file, reservations_file,
                                              uuid, hotel_id, customer_id)
    IN  IF HotelService_get_hotel(hotels_file, hotel_id) = None
        THEN Outcome(reservations_file, None,
                     hotels_out \o <<Diag("[ERROR] Hotel not found.")>>)
        ELSE IF CustomerService_get_customer(customers_file, customer_id) = None
        THEN Outcome(reservations_file, None,
                     hotels_out \o customers_out
                     \o <<Diag("[ERROR] Customer not found.")>>)
        ELSE Outcome(reserved.file, reserved.ret, customers_out \o reserved.out)

\* ReservationService.create_reservation
ReservationService_create_reservation(customers_file, hotels_file, reservations_file, uuid, hotel_id, customer_id) ==
    LET customers_out == load_entities_out(customers_file, "customers.json", "Customer")
        reserved == HotelService_reserve_room(hotels_file, reservations_file,
                                              uuid, hotel_id, customer_id)
    IN  IF CustomerService_get_customer(customers_file, customer_id) = None
        THEN Outcome(reservations_file, None,
                     customers_out \o <<Diag("[ERROR] Customer not found.")>>)
        ELSE Outcome(reserved.file, reserved.ret, customers_out \o reserved.out)

\* ReservationService.cancel_reservation
ReservationService_cancel_reservation(reservations_file, reservation_id) ==
    HotelService_cancel_reservation(reservations_file, reservation_id)

\* ------------------------------------------------------------------- state

VARIABLES
    hotels_json,        \* data/hotels.json
    customers_json,     \* data/customers.json
    reservations_json,  \* data/reservations.json
    uuid_calls,         \* how many uuid4() strings each kind of entity has drawn
    call,               \* the name of the last service call
    ret,                \* what it returned
    out,                \* the lines it printed
    procs               \* the reservation calls that run step by step (see below)

vars == <<hotels_json, customers_json, reservations_json, uuid_calls, call, ret, out, procs>>

\* The callers whose reservation calls may interleave.
Procs == 1..MaxProcs

\* A caller with no call in flight and none returned yet.
Idle == [pc |-> "idle", op |-> "none"]

\* build_services: three stores over files that do not exist yet
Init ==
    /\ hotels_json = MissingFile
    /\ customers_json = MissingFile
    /\ reservations_json = MissingFile
    /\ uuid_calls = [Hotel |-> 0, Customer |-> 0, Reservation |-> 0]
    /\ call = "build_services"
    /\ ret = None
    /\ out = <<>>
    /\ procs = [p \in Procs |-> Idle]

\* --------------------------------------------------------------- arguments

\* create_hotel arguments: a hotel whose name strip() shortens, with one or
\* two rooms, and one with a blank name and no room.
HotelInputs ==
    {<< <<" ", "a">>, <<"x">>, 1 >>,
     << <<" ", "a">>, <<"x">>, 2 >>,
     << <<" ">>, <<"x">>, 0 >>}

\* create_customer arguments: a valid customer, and one with a blank name.
CustomerInputs ==
    {<< <<" ", "a">>, <<"e">> >>, << <<" ">>, <<"e">> >>}

\* modify_hotel arguments (name, location, total_rooms), None for a field
\* left out: nothing, a valid room count, one invalid field, a valid name
\* with an invalid room count.
HotelUpdates ==
    {<<None, None, None>>,
     <<None, None, Some(1)>>,
     <<None, None, Some(2)>>,
     <<Some(<<" ">>), None, None>>,
     <<None, Some(<<>>), None>>,
     <<None, None, Some(0)>>,
     <<Some(<<"b">>), None, Some(0)>>}

\* modify_customer arguments (name, email): nothing, a valid name that
\* strip() shortens, a blank name, a blank email.
CustomerUpdates ==
    {<<None, None>>,
     <<Some(<<"b", " ">>), None>>,
     <<Some(<<" ">>), None>>,
     <<None, Some(<<" ">>)>>}

\* An id no uuid4() call returns.
UnknownId == <<"u0">>

\* The ids written in a file, valid record or not.
ids_in(file, field) == {file.items[i][field] : i \in 1..Len(file.items)}

\* Identifiers a caller may pass: those in the file, and one that is not.
HotelIdInputs == ids_in(hotels_json, "hotel_id") \cup {UnknownId}
CustomerIdInputs == ids_in(customers_json, "customer_id") \cup {UnknownId}
ReservationIdInputs == ids_in(reservations_json, "reservation_id") \cup {UnknownId}

\* reserve_room looks no customer up: its customer_id is any string, here
\* one issued to a customer (stored or deleted since) or the empty string.
AnyCustomerId == {uuid4("Customer", n) : n \in 1..uuid_calls.Customer} \cup {<<>>}

\* ----------------------------------------------------------------- actions

create_hotel(name, location, total_rooms) ==
    /\ uuid_calls.Hotel < MaxHotels
    /\ LET done == HotelService_create_hotel(hotels_json, uuid4("Hotel", uuid_calls.Hotel + 1),
                                             name, location, total_rooms)
       IN  /\ hotels_json' = done.file
           /\ ret' = done.ret
           /\ out' = done.out
    /\ uuid_calls' = [uuid_calls EXCEPT !.Hotel = @ + 1]
    /\ call' = "create_hotel"
    /\ UNCHANGED <<customers_json, reservations_json, procs>>

\* Mutant of delete_hotel: the reservations of the hotel are deleted with it.
delete_hotel_cascade(hotel_id) ==
    /\ LET done == HotelService_delete_hotel(hotels_json, hotel_id)
       IN  /\ hotels_json' = done.file
           /\ ret' = done.ret
           /\ out' = done.out
    /\ reservations_json' =
           save_list(SelectSeq(load_list(reservations_json),
                               LAMBDA item : item.hotel_id # hotel_id))
    /\ call' = "delete_hotel"
    /\ UNCHANGED <<customers_json, uuid_calls, procs>>

delete_hotel(hotel_id) ==
    /\ LET done == HotelService_delete_hotel(hotels_json, hotel_id)
       IN  /\ hotels_json' = done.file
           /\ ret' = done.ret
           /\ out' = done.out
    /\ call' = "delete_hotel"
    /\ UNCHANGED <<customers_json, reservations_json, uuid_calls, procs>>

modify_hotel(hotel_id, name, location, total_rooms) ==
    /\ LET done == HotelService_modify_hotel(hotels_json, hotel_id,
                                             name, location, total_rooms)
       IN  /\ hotels_json' = done.file
           /\ ret' = done.ret
           /\ out' = done.out
    /\ call' = "modify_hotel"
    /\ UNCHANGED <<customers_json, reservations_json, uuid_calls, procs>>

reserve_room(hotel_id, customer_id) ==
    /\ LET done == HotelService_reserve_room(
                       hotels_json, reservations_json,
                       uuid4("Reservation", uuid_calls.Reservation + 1),
                       hotel_id, customer_id)
       IN  /\ done.ret # None => uuid_calls.Reservation < MaxReservations
           /\ reservations_json' = done.file
           /\ ret' = done.ret
           /\ out' = done.out
           /\ uuid_calls' = IF done.ret # None
                            THEN [uuid_calls EXCEPT !.Reservation = @ + 1]
                            ELSE uuid_calls
    /\ call' = "reserve_room"
    /\ UNCHANGED <<hotels_json, customers_json, procs>>

cancel_reservation(reservation_id) ==
    /\ LET done == HotelService_cancel_reservation(reservations_json, reservation_id)
       IN  /\ reservations_json' = done.file
           /\ ret' = done.ret
           /\ out' = done.out
    /\ call' = "cancel_reservation"
    /\ UNCHANGED <<hotels_json, customers_json, uuid_calls, procs>>

create_customer(name, email) ==
    /\ uuid_calls.Customer < MaxCustomers
    /\ LET done == CustomerService_create_customer(
                       customers_json, uuid4("Customer", uuid_calls.Customer + 1),
                       name, email)
       IN  /\ customers_json' = done.file
           /\ ret' = done.ret
           /\ out' = done.out
    /\ uuid_calls' = [uuid_calls EXCEPT !.Customer = @ + 1]
    /\ call' = "create_customer"
    /\ UNCHANGED <<hotels_json, reservations_json, procs>>

delete_customer(customer_id) ==
    /\ LET done == CustomerService_delete_customer(customers_json, customer_id)
       IN  /\ customers_json' = done.file
           /\ ret' = done.ret
           /\ out' = done.out
    /\ call' = "delete_customer"
    /\ UNCHANGED <<hotels_json, reservations_json, uuid_calls, procs>>

modify_customer(customer_id, name, email) ==
    /\ LET done == CustomerService_modify_customer(customers_json, customer_id,
                                                   name, email)
       IN  /\ customers_json' = done.file
           /\ ret' = done.ret
           /\ out' = done.out
    /\ call' = "modify_customer"
    /\ UNCHANGED <<hotels_json, reservations_json, uuid_calls, procs>>

create_reservation(hotel_id, customer_id) ==
    /\ LET done == ReservationService_create_reservation(
                       customers_json, hotels_json, reservations_json,
                       uuid4("Reservation", uuid_calls.Reservation + 1),
                       hotel_id, customer_id)
       IN  /\ done.ret # None => uuid_calls.Reservation < MaxReservations
           /\ reservations_json' = done.file
           /\ ret' = done.ret
           /\ out' = done.out
           /\ uuid_calls' = IF done.ret # None
                            THEN [uuid_calls EXCEPT !.Reservation = @ + 1]
                            ELSE uuid_calls
    /\ call' = "create_reservation"
    /\ UNCHANGED <<hotels_json, customers_json, procs>>

Next ==
    \/ \E args \in HotelInputs : create_hotel(args[1], args[2], args[3])
    \/ \E hotel_id \in HotelIdInputs : delete_hotel(hotel_id)
    \/ \E hotel_id \in HotelIdInputs, args \in HotelUpdates :
           modify_hotel(hotel_id, args[1], args[2], args[3])
    \/ \E hotel_id \in HotelIdInputs, customer_id \in AnyCustomerId :
           reserve_room(hotel_id, customer_id)
    \/ \E reservation_id \in ReservationIdInputs : cancel_reservation(reservation_id)
    \/ \E args \in CustomerInputs : create_customer(args[1], args[2])
    \/ \E customer_id \in CustomerIdInputs : delete_customer(customer_id)
    \/ \E customer_id \in CustomerIdInputs, args \in CustomerUpdates :
           modify_customer(customer_id, args[1], args[2])
    \/ \E hotel_id \in HotelIdInputs, customer_id \in CustomerIdInputs :
           create_reservation(hotel_id, customer_id)

Spec == Init /\ [][Next]_vars

\* Every operation but modify_hotel: no stored hotel's total_rooms changes.
NextFixedRooms ==
    \/ \E args \in HotelInputs : create_hotel(args[1], args[2], args[3])
    \/ \E hotel_id \in HotelIdInputs : delete_hotel(hotel_id)
    \/ \E hotel_id \in HotelIdInputs, customer_id \in AnyCustomerId :
           reserve_room(hotel_id, customer_id)
    \/ \E reservation_id \in ReservationIdInputs : cancel_reservation(reservation_id)
    \/ \E args \in CustomerInputs : create_customer(args[1], args[2])
    \/ \E customer_id \in CustomerIdInputs : delete_customer(customer_id)
    \/ \E customer_id \in CustomerIdInputs, args \in CustomerUpdates :
           modify_customer(customer_id, args[1], args[2])
    \/ \E hotel_id \in HotelIdInputs, customer_id \in CustomerIdInputs :
           create_reservation(hotel_id, customer_id)

\* The operations that create, change or delete hotels and reservations,
\* and create_customer, without which no reservation is created.
NextCapacityOps ==
    \/ \E args \in HotelInputs : create_hotel(args[1], args[2], args[3])
    \/ \E hotel_id \in HotelIdInputs : delete_hotel(hotel_id)
    \/ \E hotel_id \in HotelIdInputs, args \in HotelUpdates :
           modify_hotel(hotel_id, args[1], args[2], args[3])
    \/ \E reservation_id \in ReservationIdInputs : cancel_reservation(reservation_id)
    \/ \E args \in CustomerInputs : create_customer(args[1], args[2])
    \/ \E hotel_id \in HotelIdInputs, customer_id \in CustomerIdInputs :
           create_reservation(hotel_id, customer_id)

SpecCapacityOps == Init /\ [][NextCapacityOps]_vars

SpecFixedRooms == Init /\ [][NextFixedRooms]_vars

\* ------------------------------------------------------------- collections

\* HotelService.list_hotels, CustomerService.list_customers and
\* ReservationService.list_reservations: the collection of each kind is the
\* sequence of entities its store loads.
list_hotels == load_entities(hotels_json, "Hotel")
list_customers == load_entities(customers_json, "Customer")
list_reservations == load_entities(reservations_json, "Reservation")

Range(seq) == {seq[i] : i \in 1..Len(seq)}

HotelIds == {h.hotel_id : h \in Range(list_hotels)}
CustomerIds == {c.customer_id : c \in Range(list_customers)}
ReservationIds == {r.reservation_id : r \in Range(list_reservations)}

\* The dicts of reservations.json, as written.
StoredReservations == Range(reservations_json.items)

\* How many of the reservations in seq are ACTIVE ones of the hotel.
ActiveOf(seq, hotel_id) ==
    Cardinality({i \in 1..Len(seq) :
                    seq[i].hotel_id = hotel_id /\ seq[i].status = ACTIVE})

Printed(lines) == {lines[i].msg : i \in 1..Len(lines)}

CustomerNotFound == "[ERROR] Customer not found."
HotelNotFound == "[ERROR] Hotel not found."
NoRoomsAvailable == "[ERROR] No rooms available."
NotCancellable == "[ERROR] Reservation not found or already cancelled."
InvalidHotelModification == "[ERROR] Invalid hotel modification data."
InvalidCustomerModification == "[ERROR] Invalid customer modification data."

\* The uuid the next reservation gets.
NextReservationId == uuid4("Reservation", uuid_calls.Reservation + 1)

\* What create_reservation(hotel_id, customer_id) would do in this state.
CreateReservation(hotel_id, customer_id) ==
    ReservationService_create_reservation(customers_json, hotels_json, reservations_json,
                                          NextReservationId, hotel_id, customer_id)

\* What cancel_reservation(reservation_id) would do in this state.
CancelReservation(reservation_id) ==
    ReservationService_cancel_reservation(reservations_json, reservation_id)

\* ----------------------------------------------------------- storage runs

\* A JsonStore on its own, over whatever hotels.json, customers.json or
\* reservations.json may hold when the program starts: files written by
\* hand, by another program or by an earlier run.

\* A list in a file, and a list of entities passed to a save, has at most
\* this many elements.
MaxItems == 2

Factories == {"Hotel", "Customer", "Reservation"}

\* The elements a hotels.json list is made of: two valid records (one with a
\* name strip() shortens), a record without total_rooms, one with a blank
\* name, one with no room, a number and a string.
HotelElements ==
    {[hotel_id |-> <<"h1">>, name |-> <<"a">>, location |-> <<"x">>, total_rooms |-> 1],
     [hotel_id |-> <<"h2">>, name |-> <<" ", "a">>, location |-> <<"x">>, total_rooms |-> 2],
     [hotel_id |-> <<"h3">>, name |-> <<"a">>, location |-> <<"x">>],
     [hotel_id |-> <<"h4">>, name |-> <<" ">>, location |-> <<"x">>, total_rooms |-> 1],
     [hotel_id |-> <<"h1">>, name |-> <<"a">>, location |-> <<"x">>, total_rooms |-> 0],
     NonDict("123"),
     NonDict("\"x\"")}

CustomerElements ==
    {[customer_id |-> <<"c1">>, name |-> <<"a">>, email |-> <<"e">>],
     [customer_id |-> <<"c2", " ">>, name |-> <<"a">>, email |-> <<"e">>],
     [customer_id |-> <<"c3">>, name |-> <<"a">>, email |-> <<>>],
     [customer_id |-> <<"c4">>, email |-> <<"e">>],
     NonDict("123")}

\* The elements of a reservations.json list: ACTIVE, CANCELLED, without
\* status, with a status and a customer_id strip() shortens, with a status
\* in lower case, without customer_id, and a number.
ReservationElements ==
    {[reservation_id |-> <<"r1">>, hotel_id |-> <<"h1">>, customer_id |-> <<"c1">>,
      status |-> ACTIVE],
     [reservation_id |-> <<"r2">>, hotel_id |-> <<"h1">>, customer_id |-> <<"c1">>,
      status |-> CANCELLED],
     [reservation_id |-> <<"r3">>, hotel_id |-> <<"h1">>, customer_id |-> <<"c1">>],
     [reservation_id |-> <<"r4">>, hotel_id |-> <<"h1">>, customer_id |-> <<" ", "c1">>,
      status |-> <<" ", "ACTIVE">>],
     [reservation_id |-> <<"r1">>, hotel_id |-> <<"h1">>, customer_id |-> <<"c1">>,
      status |-> <<"active">>],
     [reservation_id |-> <<"r2">>, hotel_id |-> <<"h1">>, status |-> ACTIVE],
     NonDict("123")}

Elements(factory) ==
    CASE factory = "Hotel" -> HotelElements
      [] factory = "Customer" -> CustomerElements
      [] factory = "Reservation" -> ReservationElements

SeqsUpTo(S, n) == UNION {[1..k -> S] : k \in 0..n}

\* What the file of a store may hold.
Documents(factory) ==
    {[kind |-> "list", items |-> items] : items \in SeqsUpTo(Elements(factory), MaxItems)}
    \cup {[kind |-> k, items |-> <<>>] :
              k \in {"missing", "not_list", "invalid_json", "unreadable", "undecodable"}}

\* The entities a caller may hand to a save: those a factory builds, and
\* entities built directly with a string that starts or ends with blanks.
HotelEntities ==
    {[hotel_id |-> <<"h1">>, name |-> <<"a">>, location |-> <<"x">>, total_rooms |-> 1],
     [hotel_id |-> <<"h2">>, name |-> <<" ", "a">>, location |-> <<"x">>, total_rooms |-> 2]}

CustomerEntities ==
    {[customer_id |-> <<"c1">>, name |-> <<"a">>, email |-> <<"e">>],
     [customer_id |-> <<"c2">>, name |-> <<"a">>, email |-> <<"e", " ">>]}

ReservationEntities ==
    {[reservation_id |-> <<"r1">>, hotel_id |-> <<"h1">>, customer_id |-> <<"c1">>,
      status |-> ACTIVE],
     [reservation_id |-> <<"r2">>, hotel_id |-> <<"h1">>, customer_id |-> <<"c1">>,
      status |-> CANCELLED],
     [reservation_id |-> <<"r3">>, hotel_id |-> <<"h1">>, customer_id |-> <<" ", "c1">>,
      status |-> ACTIVE]}

Entities(factory) ==
    CASE factory = "Hotel" -> HotelEntities
      [] factory = "Customer" -> CustomerEntities
      [] factory = "Reservation" -> ReservationEntities

\* [e.to_dict() for e in entities]
to_dicts(factory, entities) ==
    CASE factory = "Hotel" -> hotels_to_dicts(entities)
      [] factory = "Customer" -> customers_to_dicts(entities)
      [] factory = "Reservation" -> reservations_to_dicts(entities)

\* The file and the path of the store that holds the entities of a factory.
File(factory) ==
    CASE factory = "Hotel" -> hotels_json
      [] factory = "Customer" -> customers_json
      [] factory = "Reservation" -> reservations_json

Path(factory) ==
    CASE factory = "Hotel" -> "hotels.json"
      [] factory = "Customer" -> "customers.json"
      [] factory = "Reservation" -> "reservations.json"

\* What a call on a store gives back: the store, the exception it raised
\* ("" when it returned) and the value it returned.
Returned(factory, value) == [factory |-> factory, raised |-> "", value |-> value]
Raised(factory, exception) == [factory |-> factory, raised |-> exception, value |-> <<>>]

\* One store holds a document, the other two have no file yet.
InitStorage ==
    /\ \E factory \in Factories : \E document \in Documents(factory) :
           /\ hotels_json = IF factory = "Hotel" THEN document ELSE MissingFile
           /\ customers_json = IF factory = "Customer" THEN document ELSE MissingFile
           /\ reservations_json = IF factory = "Reservation" THEN document ELSE MissingFile
    /\ uuid_calls = [Hotel |-> 0, Customer |-> 0, Reservation |-> 0]
    /\ call = "build_services"
    /\ ret = None
    /\ out = <<>>
    /\ procs = [p \in Procs |-> Idle]

\* A run uses one store: the other two have no file.
only_store(factory) == \A other \in Factories \ {factory} : File(other) = MissingFile

\* store.load_list()
load_list_call(factory) ==
    /\ only_store(factory)
    /\ call' = "load_list"
    /\ ret' = IF load_list_raises(File(factory)) # ""
              THEN Raised(factory, load_list_raises(File(factory)))
              ELSE Returned(factory, load_list(File(factory)))
    /\ out' = IF load_list_raises(File(factory)) # ""
              THEN <<>>
              ELSE load_list_out(File(factory), Path(factory))
    /\ UNCHANGED <<hotels_json, customers_json, reservations_json, uuid_calls, procs>>

\* store.load_entities(factory)
load_entities_call(factory) ==
    /\ only_store(factory)
    /\ call' = "load_entities"
    /\ ret' = IF load_list_raises(File(factory)) # ""
              THEN Raised(factory, load_list_raises(File(factory)))
              ELSE Returned(factory, load_entities(File(factory), factory))
    /\ out' = IF load_list_raises(File(factory)) # ""
              THEN <<>>
              ELSE load_entities_out(File(factory), Path(factory), factory)
    /\ UNCHANGED <<hotels_json, customers_json, reservations_json, uuid_calls, procs>>

\* store.save_list([e.to_dict() for e in entities])
save_list_call(factory, entities) ==
    /\ only_store(factory)
    /\ call' = "save_list"
    /\ ret' = Returned(factory, entities)
    /\ out' = <<>>
    /\ hotels_json' = IF factory = "Hotel"
                      THEN save_list(to_dicts(factory, entities)) ELSE hotels_json
    /\ customers_json' = IF factory = "Customer"
                         THEN save_list(to_dicts(factory, entities)) ELSE customers_json
    /\ reservations_json' = IF factory = "Reservation"
                            THEN save_list(to_dicts(factory, entities))
                            ELSE reservations_json
    /\ UNCHANGED <<uuid_calls, procs>>

NextStorage ==
    \/ \E factory \in Factories : load_list_call(factory)
    \/ \E factory \in Factories : load_entities_call(factory)
    \/ \E factory \in Factories : \E entities \in SeqsUpTo(Entities(factory), MaxItems) :
           save_list_call(factory, entities)

SpecStorage == InitStorage /\ [][NextStorage]_vars

\* ----------------------------------------------------------- failing writes

\* save_list when mkdir or write_text raises OSError: the exception is caught
\* and a line printed.  write_text opens the file with mode "w" and then
\* writes, so the OSError comes
\*   "before_open"  from mkdir or from open (read-only directory, no
\*                  permission): the file is as it was;
\*   "after_open"   from the write or the close (disk full, file size limit):
\*                  the file has been truncated and is empty or cut short,
\*                  which json.loads rejects.
WriteFailures == {"before_open", "after_open"}

CouldNotWrite == "[ERROR] Could not write"

save_list_fails(file, how) ==
    IF how = "before_open" THEN file ELSE [kind |-> "invalid_json", items |-> <<>>]

\* A service method whose save_list call fails: done is what it does when
\* the save succeeds, before the file it saves to.  save_list is the last
\* statement before the return in every method that saves.
failed_save(before, done, path, how) ==
    Outcome(save_list_fails(before, how), done.ret,
            done.out \o <<StoreDiag(CouldNotWrite, path)>>)

create_hotel_write_fails(name, location, total_rooms, how) ==
    /\ uuid_calls.Hotel < MaxHotels
    /\ LET done == failed_save(hotels_json,
                               HotelService_create_hotel(
                                   hotels_json, uuid4("Hotel", uuid_calls.Hotel + 1),
                                   name, location, total_rooms),
                               "hotels.json", how)
       IN  /\ hotels_json' = done.file
           /\ ret' = done.ret
           /\ out' = done.out
    /\ uuid_calls' = [uuid_calls EXCEPT !.Hotel = @ + 1]
    /\ call' = "create_hotel"
    /\ UNCHANGED <<customers_json, reservations_json, procs>>

delete_hotel_write_fails(hotel_id, how) ==
    /\ LET done == failed_save(hotels_json,
                               HotelService_delete_hotel(hotels_json, hotel_id),
                               "hotels.json", how)
       IN  /\ hotels_json' = done.file
           /\ ret' = done.ret
           /\ out' = done.out
    /\ call' = "delete_hotel"
    /\ UNCHANGED <<customers_json, reservations_json, uuid_calls, procs>>

modify_hotel_write_fails(hotel_id, name, location, total_rooms, how) ==
    /\ LET done == failed_save(hotels_json,
                               HotelService_modify_hotel(hotels_json, hotel_id,
                                                         name, location, total_rooms),
                               "hotels.json", how)
       IN  /\ hotels_json' = done.file
           /\ ret' = done.ret
           /\ out' = done.out
    /\ call' = "modify_hotel"
    /\ UNCHANGED <<customers_json, reservations_json, uuid_calls, procs>>

create_customer_write_fails(name, email, how) ==
    /\ uuid_calls.Customer < MaxCustomers
    /\ LET done == failed_save(customers_json,
                               CustomerService_create_customer(
                                   customers_json,
                                   uuid4("Customer", uuid_calls.Customer + 1),
                                   name, email),
                               "customers.json", how)
       IN  /\ customers_json' = done.file
           /\ ret' = done.ret
           /\ out' = done.out
    /\ uuid_calls' = [uuid_calls EXCEPT !.Customer = @ + 1]
    /\ call' = "create_customer"
    /\ UNCHANGED <<hotels_json, reservations_json, procs>>

delete_customer_write_fails(customer_id, how) ==
    /\ LET done == failed_save(customers_json,
                               CustomerService_delete_customer(customers_json, customer_id),
                               "customers.json", how)
       IN  /\ customers_json' = done.file
           /\ ret' = done.ret
           /\ out' = done.out
    /\ call' = "delete_customer"
    /\ UNCHANGED <<hotels_json, reservations_json, uuid_calls, procs>>

modify_customer_write_fails(customer_id, name, email, how) ==
    /\ LET done == failed_save(customers_json,
                               CustomerService_modify_customer(customers_json, customer_id,
                                                               name, email),
                               "customers.json", how)
       IN  /\ customers_json' = done.file
           /\ ret' = done.ret
           /\ out' = done.out
    /\ call' = "modify_customer"
    /\ UNCHANGED <<hotels_json, reservations_json, uuid_calls, procs>>

\* create_reservation reaches save_list only when it builds a reservation.
create_reservation_write_fails(hotel_id, customer_id, how) ==
    /\ uuid_calls.Reservation < MaxReservations
    /\ LET built == ReservationService_create_reservation(
                        customers_json, hotels_json, reservations_json,
                        uuid4("Reservation", uuid_calls.Reservation + 1),
                        hotel_id, customer_id)
           done == failed_save(reservations_json, built, "reservations.json", how)
       IN  /\ built.ret # None
           /\ reservations_json' = done.file
           /\ ret' = done.ret
           /\ out' = done.out
    /\ uuid_calls' = [uuid_calls EXCEPT !.Reservation = @ + 1]
    /\ call' = "create_reservation"
    /\ UNCHANGED <<hotels_json, customers_json, procs>>

cancel_reservation_write_fails(reservation_id, how) ==
    /\ LET done == failed_save(reservations_json,
                               HotelService_cancel_reservation(reservations_json,
                                                               reservation_id),
                               "reservations.json", how)
       IN  /\ reservations_json' = done.file
           /\ ret' = done.ret
           /\ out' = done.out
    /\ call' = "cancel_reservation"
    /\ UNCHANGED <<hotels_json, customers_json, uuid_calls, procs>>

\* The creations and the cancellation with a save that succeeds, and every
\* saving operation with a save that fails.
NextWriteFailure ==
    \/ \E args \in HotelInputs : create_hotel(args[1], args[2], args[3])
    \/ \E args \in CustomerInputs : create_customer(args[1], args[2])
    \/ \E hotel_id \in HotelIdInputs, customer_id \in CustomerIdInputs :
           create_reservation(hotel_id, customer_id)
    \/ \E reservation_id \in ReservationIdInputs : cancel_reservation(reservation_id)
    \/ \E args \in HotelInputs, how \in WriteFailures :
           create_hotel_write_fails(args[1], args[2], args[3], how)
    \/ \E hotel_id \in HotelIdInputs, how \in WriteFailures :
           delete_hotel_write_fails(hotel_id, how)
    \/ \E hotel_id \in HotelIdInputs, args \in HotelUpdates, how \in WriteFailures :
           modify_hotel_write_fails(hotel_id, args[1], args[2], args[3], how)
    \/ \E args \in CustomerInputs, how \in WriteFailures :
           create_customer_write_fails(args[1], args[2], how)
    \/ \E customer_id \in CustomerIdInputs, how \in WriteFailures :
           delete_customer_write_fails(customer_id, how)
    \/ \E customer_id \in CustomerIdInputs, args \in CustomerUpdates, how \in WriteFailures :
           modify_customer_write_fails(customer_id, args[1], args[2], how)
    \/ \E hotel_id \in HotelIdInputs, customer_id \in CustomerIdInputs, how \in WriteFailures :
           create_reservation_write_fails(hotel_id, customer_id, how)
    \/ \E reservation_id \in ReservationIdInputs, how \in WriteFailures :
           cancel_reservation_write_fails(reservation_id, how)

SpecWriteFailure == Init /\ [][NextWriteFailure]_vars

\* -------------------------------------------------------- interleaved calls

\* create_reservation and cancel_reservation of several callers (threads or
\* processes over the same data directory), each running as two steps: the
\* loads and the decision, then the save.  Nothing is locked between the two.
\* A hotel and a customer have been created before and are left alone, so the
\* lookups of get_customer and get_hotel and the load of the reservations
\* read the same files wherever they fall and are taken as one step.

\* A caller between its load and its save: snapshot is the list of
\* reservations it loaded, file what its save_list call will write, result
\* and out what the call returns and the lines it prints.
InFlight(op, snapshot, done) ==
    [pc |-> "save", op |-> op, snapshot |-> snapshot,
     file |-> done.file, result |-> done.ret, out |-> done.out]

\* A caller whose call has returned.
Done(op, result) == [pc |-> "idle", op |-> op, result |-> result]

InitInterleaved ==
    /\ \E args \in HotelInputs :
           hotels_json = HotelService_create_hotel(MissingFile, uuid4("Hotel", 1),
                                                   args[1], args[2], args[3]).file
    /\ customers_json = CustomerService_create_customer(
                            MissingFile, uuid4("Customer", 1), <<"a">>, <<"e">>).file
    /\ reservations_json = MissingFile
    /\ uuid_calls = [Hotel |-> 1, Customer |-> 1, Reservation |-> 0]
    /\ call = "create_customer"
    /\ ret = CustomerService_create_customer(
                 MissingFile, uuid4("Customer", 1), <<"a">>, <<"e">>).ret
    /\ out = <<>>
    /\ procs = [p \in Procs |-> Idle]

\* create_reservation up to the save_list call of reserve_room (services.py
\* lines 226-113): a call that fails returns here, one that builds a
\* reservation has drawn its uuid and holds the list it is about to save.
create_reservation_load(p, hotel_id, customer_id) ==
    /\ procs[p].pc = "idle"
    /\ LET done == ReservationService_create_reservation(
                       customers_json, hotels_json, reservations_json,
                       uuid4("Reservation", uuid_calls.Reservation + 1),
                       hotel_id, customer_id)
       IN  IF done.ret = None
           THEN /\ procs' = [procs EXCEPT ![p] = Done("create_reservation", None)]
                /\ call' = "create_reservation"
                /\ ret' = None
                /\ out' = done.out
                /\ UNCHANGED uuid_calls
           ELSE /\ uuid_calls.Reservation < MaxReservations
                /\ procs' = [procs EXCEPT ![p] =
                                InFlight("create_reservation",
                                         load_entities(reservations_json, "Reservation"),
                                         done)]
                /\ uuid_calls' = [uuid_calls EXCEPT !.Reservation = @ + 1]
                /\ UNCHANGED <<call, ret, out>>
    /\ UNCHANGED <<hotels_json, customers_json, reservations_json>>

\* Mutant of create_reservation_save: the new reservation is appended to what
\* the file holds at the time of the save.
create_reservation_save_merging(p) ==
    /\ procs[p].pc = "save"
    /\ procs[p].op = "create_reservation"
    /\ reservations_json' =
           save_list(reservations_to_dicts(
               Append(load_entities(reservations_json, "Reservation"),
                      procs[p].result[1])))
    /\ procs' = [procs EXCEPT ![p] = Done("create_reservation", procs[p].result)]
    /\ call' = "create_reservation"
    /\ ret' = procs[p].result
    /\ out' = procs[p].out
    /\ UNCHANGED <<hotels_json, customers_json, uuid_calls>>

\* reserve_room lines 114-115: the whole list is written and the reservation
\* returned.
create_reservation_save(p) ==
    /\ procs[p].pc = "save"
    /\ procs[p].op = "create_reservation"
    /\ reservations_json' = procs[p].file
    /\ procs' = [procs EXCEPT ![p] = Done("create_reservation", procs[p].result)]
    /\ call' = "create_reservation"
    /\ ret' = procs[p].result
    /\ out' = procs[p].out
    /\ UNCHANGED <<hotels_json, customers_json, uuid_calls>>

\* cancel_reservation lines 119-131: the load, the loop and the print.
cancel_reservation_load(p, reservation_id) ==
    /\ procs[p].pc = "idle"
    /\ procs' = [procs EXCEPT ![p] =
                    InFlight("cancel_reservation",
                             load_entities(reservations_json, "Reservation"),
                             HotelService_cancel_reservation(reservations_json,
                                                             reservation_id))]
    /\ UNCHANGED <<hotels_json, customers_json, reservations_json, uuid_calls,
                   call, ret, out>>

\* cancel_reservation lines 133-134: the save and the return.
cancel_reservation_save(p) ==
    /\ procs[p].pc = "save"
    /\ procs[p].op = "cancel_reservation"
    /\ reservations_json' = procs[p].file
    /\ procs' = [procs EXCEPT ![p] = Done("cancel_reservation", procs[p].result)]
    /\ call' = "cancel_reservation"
    /\ ret' = procs[p].result
    /\ out' = procs[p].out
    /\ UNCHANGED <<hotels_json, customers_json, uuid_calls>>

NextInterleaved ==
    \/ \E p \in Procs, hotel_id \in HotelIdInputs, customer_id \in CustomerIdInputs :
           create_reservation_load(p, hotel_id, customer_id)
    \/ \E p \in Procs : create_reservation_save(p)
    \/ \E p \in Procs, reservation_id \in ReservationIdInputs :
           cancel_reservation_load(p, reservation_id)
    \/ \E p \in Procs : cancel_reservation_save(p)

SpecInterleaved == InitInterleaved /\ [][NextInterleaved]_vars

\* ------------------------------------------- interleaved calls, torn writes

\* The same callers with save_list itself in two steps, as write_text runs
\* it (storage.py line 55): open(path, "w") empties the file, then the text
\* is written and the file closed.  A load that falls in between reads an
\* empty file, which is no JSON.

\* reservations.json between the open and the write of a save.
Truncated == [kind |-> "invalid_json", items |-> <<>>]

\* write_text opens the file for writing.
save_list_open(p) ==
    /\ procs[p].pc = "save"
    /\ procs' = [procs EXCEPT ![p].pc = "write"]
    /\ reservations_json' = Truncated
    /\ UNCHANGED <<hotels_json, customers_json, uuid_calls, call, ret, out>>

\* What the file holds once caller p has written its text from offset 0:
\* that text, or, when another caller has written a list since p opened the
\* file, that text followed by the end of the other one when the other is
\* longer, which is no JSON.
written_over(file, current) ==
    {file} \cup (IF current.kind = "list" /\ current.items # <<>>
                 THEN {Truncated}
                 ELSE {})

\* Mutant of save_list_write: the caller's new reservation is written behind
\* the records the file holds at that time.
save_list_write_appending(p) ==
    /\ procs[p].pc = "write"
    /\ reservations_json' =
           IF procs[p].op = "create_reservation"
           THEN save_list(reservations_json.items
                          \o <<Reservation_to_dict(procs[p].result[1])>>)
           ELSE procs[p].file
    /\ procs' = [procs EXCEPT ![p] = Done(procs[p].op, procs[p].result)]
    /\ call' = procs[p].op
    /\ ret' = procs[p].result
    /\ out' = procs[p].out
    /\ UNCHANGED <<hotels_json, customers_json, uuid_calls>>

\* write_text writes and closes; the call returns (services.py lines 115, 134).
save_list_write(p) ==
    /\ procs[p].pc = "write"
    /\ reservations_json' \in written_over(procs[p].file, reservations_json)
    /\ procs' = [procs EXCEPT ![p] = Done(procs[p].op, procs[p].result)]
    /\ call' = procs[p].op
    /\ ret' = procs[p].result
    /\ out' = procs[p].out
    /\ UNCHANGED <<hotels_json, customers_json, uuid_calls>>

NextInterleavedWrites ==
    \/ \E p \in Procs, hotel_id \in HotelIdInputs, customer_id \in CustomerIdInputs :
           create_reservation_load(p, hotel_id, customer_id)
    \/ \E p \in Procs, reservation_id \in ReservationIdInputs :
           cancel_reservation_load(p, reservation_id)
    \/ \E p \in Procs : save_list_open(p)
    \/ \E p \in Procs : save_list_write(p)

SpecInterleavedWrites == InitInterleaved /\ [][NextInterleavedWrites]_vars

\* ---------------------------------------------------------- partial updates

\* The catalogs under create and partial updates of every shape: each field
\* alone, all fields at once, none, and the rejected ones.

\* modify_hotel arguments that change one field to a valid value, or all.
ValidHotelUpdates ==
    {<<Some(<<"b", " ">>), None, None>>,
     <<None, Some(<<"y">>), None>>,
     <<Some(<<"b">>), Some(<<"y">>), Some(1)>>}

PartialHotelUpdates == HotelUpdates \cup ValidHotelUpdates

\* modify_customer arguments that change the email, or both fields.
ValidCustomerUpdates ==
    {<<None, Some(<<" ", "f">>)>>,
     <<Some(<<"b">>), Some(<<"f">>)>>}

PartialCustomerUpdates == CustomerUpdates \cup ValidCustomerUpdates

NextUpdates ==
    \/ \E args \in HotelInputs : create_hotel(args[1], args[2], args[3])
    \/ \E hotel_id \in HotelIdInputs, args \in PartialHotelUpdates :
           modify_hotel(hotel_id, args[1], args[2], args[3])
    \/ \E args \in CustomerInputs : create_customer(args[1], args[2])
    \/ \E customer_id \in CustomerIdInputs, args \in PartialCustomerUpdates :
           modify_customer(customer_id, args[1], args[2])

SpecUpdates == Init /\ [][NextUpdates]_vars

\* The validation rules of the data model, stated on a record: a required
\* string has a character that is not whitespace, total_rooms is at least 1,
\* the status, when given, is ACTIVE or CANCELLED once trimmed.
NonBlank(data, field) ==
    field \in DOMAIN data /\ \E i \in 1..Len(data[field]) : data[field][i] \notin Whitespace

ValidRecord(factory, data) ==
    CASE factory = "Hotel" ->
             /\ NonBlank(data, "hotel_id")
             /\ NonBlank(data, "name")
             /\ NonBlank(data, "location")
             /\ "total_rooms" \in DOMAIN data /\ data.total_rooms >= 1
      [] factory = "Customer" ->
             /\ NonBlank(data, "customer_id")
             /\ NonBlank(data, "name")
             /\ NonBlank(data, "email")
      [] factory = "Reservation" ->
             /\ NonBlank(data, "reservation_id")
             /\ NonBlank(data, "hotel_id")
             /\ NonBlank(data, "customer_id")
             /\ "status" \in DOMAIN data => strip(data.status) \in {ACTIVE, CANCELLED}

\* No string of the record starts or ends with whitespace.
Trimmed(data) ==
    \A field \in DOMAIN data \ {"total_rooms"} :
        \/ data[field] = <<>>
        \/ data[field][1] \notin Whitespace /\ data[field][Len(data[field])] \notin Whitespace

\* The positions of the dicts in a list, and the place of the dict at
\* position i among them.
DictPositions(items) == {i \in 1..Len(items) : is_dict(items[i])}
DictRank(items, i) == Cardinality({j \in DictPositions(items) : j <= i})

\* ------------------------------------------------------------------ claims

\* C1 (capacity invariant): while no hotel's total_rooms is changed, a stored
\* hotel never has more ACTIVE reservation records in reservations.json than
\* its total_rooms, whatever creations and cancellations have run.
C1_Capacity ==
    \A h \in Range(list_hotels) :
        ActiveOf(reservations_json.items, h.hotel_id) <= h.total_rooms

\* A hotel with two rooms holds two ACTIVE reservations and a further
\* create_reservation has just been refused.
C1_Witness ==
    /\ call = "create_reservation"
    /\ ret = None
    /\ NoRoomsAvailable \in Printed(out)
    /\ \E h \in Range(list_hotels) :
           /\ h.total_rooms = 2
           /\ ActiveOf(reservations_json.items, h.hotel_id) = 2

\* C2 (status monotonicity): in every step, a reservation record that is in
\* reservations.json before and after keeps its status or goes from ACTIVE to
\* CANCELLED, and a record that is new carries the uuid just drawn and is
\* ACTIVE.  An id is drawn once, so a CANCELLED reservation is never ACTIVE
\* again.
C2_StatusMonotone ==
    [][\A new \in Range(reservations_json'.items) :
          /\ \A old \in StoredReservations :
                 old.reservation_id = new.reservation_id =>
                     \/ new.status = old.status
                     \/ old.status = ACTIVE /\ new.status = CANCELLED
          /\ (\A old \in StoredReservations :
                  old.reservation_id # new.reservation_id) =>
                 /\ new.status = ACTIVE
                 /\ new.reservation_id = NextReservationId
                 /\ uuid_calls'.Reservation = uuid_calls.Reservation + 1]_vars

\* A reservation is CANCELLED and a later create_reservation for its hotel
\* has stored another one.
C2_Witness ==
    /\ call = "create_reservation"
    /\ ret # None
    /\ \E r \in StoredReservations :
           /\ r.status = CANCELLED
           /\ r.hotel_id = ret[1].hotel_id
           /\ r.reservation_id # ret[1].reservation_id

\* C3 (the customer is checked first): create_reservation with a customer_id
\* that is not in the customer collection returns None and prints 'Customer
\* not found', and neither 'Hotel not found' nor 'No rooms available', whatever
\* the hotel; with a customer that exists and a hotel_id that is not in the
\* hotel collection it returns None and prints 'Hotel not found' alone; a
\* create_reservation that returns None prints exactly one of the three.
C3_CustomerFirst ==
    \A hotel_id \in HotelIdInputs, customer_id \in CustomerIdInputs \cup AnyCustomerId :
        LET done == CreateReservation(hotel_id, customer_id)
            failures == Printed(done.out)
                        \cap {CustomerNotFound, HotelNotFound, NoRoomsAvailable}
        IN  /\ customer_id \notin CustomerIds =>
                done.ret = None /\ failures = {CustomerNotFound}
            /\ (customer_id \in CustomerIds /\ hotel_id \notin HotelIds) =>
                done.ret = None /\ failures = {HotelNotFound}
            /\ done.ret = None => Cardinality(failures) = 1
            /\ done.ret # None => failures = {}

\* create_reservation has just reported 'Customer not found' while no hotel is
\* stored either.
C3_Witness ==
    /\ call = "create_reservation"
    /\ ret = None
    /\ Printed(out) = {CustomerNotFound}
    /\ list_hotels = <<>>
    /\ list_customers = <<>>

\* C4 (capacity decision): for a hotel and a customer that both exist,
\* create_reservation returns None, printing 'No rooms available', exactly when
\* the hotel's ACTIVE reservations number at least its total_rooms; otherwise it
\* returns an ACTIVE reservation of that hotel and customer, whether or not the
\* customer already holds one there.
C4_CapacityDecision ==
    \A h \in Range(list_hotels), c \in Range(list_customers) :
        LET done == CreateReservation(h.hotel_id, c.customer_id)
            full == ActiveOf(list_reservations, h.hotel_id) >= h.total_rooms
        IN  /\ full => done.ret = None /\ NoRoomsAvailable \in Printed(done.out)
            /\ ~full =>
                /\ done.ret # None
                /\ done.ret[1].status = ACTIVE
                /\ done.ret[1].hotel_id = h.hotel_id
                /\ done.ret[1].customer_id = c.customer_id

\* create_reservation has just given a customer a second ACTIVE reservation in
\* the same hotel.
C4_Witness ==
    /\ call = "create_reservation"
    /\ ret # None
    /\ \E r \in Range(list_reservations) :
           /\ r.reservation_id # ret[1].reservation_id
           /\ r.hotel_id = ret[1].hotel_id
           /\ r.customer_id = ret[1].customer_id
           /\ r.status = ACTIVE

\* C5 (a failing create_reservation mutates nothing): a create_reservation
\* that returns None leaves hotels.json, customers.json and reservations.json
\* as they were and draws no uuid.
C5_FailureMutatesNothing ==
    [][(call' = "create_reservation" /\ ret' = None) =>
          UNCHANGED <<hotels_json, customers_json, reservations_json, uuid_calls>>]_vars

\* create_reservation has just been refused for want of a room while
\* reservations.json holds records.
C5_Witness ==
    /\ call = "create_reservation"
    /\ ret = None
    /\ NoRoomsAvailable \in Printed(out)
    /\ reservations_json.items # <<>>

\* C6 (a failing cancel changes nothing): cancel_reservation with an id that
\* is not in the reservation collection, or whose reservation is CANCELLED,
\* returns False, and the collection afterwards holds the same reservations
\* with the same field values in the same order.
C6_FailedCancelNoChange ==
    \A reservation_id \in ReservationIdInputs :
        LET done == CancelReservation(reservation_id)
            uncancellable ==
                \A r \in Range(list_reservations) :
                    r.reservation_id = reservation_id => r.status = CANCELLED
        IN  uncancellable =>
                /\ done.ret = FALSE
                /\ load_entities(done.file, "Reservation") = list_reservations

\* cancel_reservation has just returned False while every stored reservation
\* is CANCELLED: its id was unknown or already cancelled.
C6_Witness ==
    /\ call = "cancel_reservation"
    /\ ret = FALSE
    /\ list_reservations # <<>>
    /\ \A r \in Range(list_reservations) : r.status = CANCELLED

\* C7 (one signal for two causes): cancel_reservation of an id that is not in
\* the collection and cancel_reservation of a reservation that is CANCELLED
\* return the same value, print the same lines and leave the same file.
C7_SameSignal ==
    \A found \in Range(list_reservations), missing \in ReservationIdInputs :
        (found.status = CANCELLED /\ missing \notin ReservationIds) =>
            /\ CancelReservation(found.reservation_id).ret = CancelReservation(missing).ret
            /\ CancelReservation(found.reservation_id).out = CancelReservation(missing).out
            /\ CancelReservation(found.reservation_id).file = CancelReservation(missing).file

\* cancel_reservation has just failed with its one diagnostic while the
\* collection holds a CANCELLED reservation next to an ACTIVE one.
C7_Witness ==
    /\ call = "cancel_reservation"
    /\ ret = FALSE
    /\ out = <<Diag(NotCancellable)>>
    /\ \E r \in Range(list_reservations) : r.status = CANCELLED
    /\ \E r \in Range(list_reservations) : r.status = ACTIVE

\* C8 (cancellation frees capacity): when a hotel's ACTIVE reservations number
\* its total_rooms, cancelling one of them returns True and a create_reservation
\* for that hotel and any existing customer, run right after, returns a
\* reservation.
C8_CancelFreesRoom ==
    \A h \in Range(list_hotels), r \in Range(list_reservations),
       c \in Range(list_customers) :
        (/\ ActiveOf(list_reservations, h.hotel_id) = h.total_rooms
         /\ r.hotel_id = h.hotel_id
         /\ r.status = ACTIVE) =>
            LET freed == CancelReservation(r.reservation_id)
                again == ReservationService_create_reservation(
                             customers_json, hotels_json, freed.file,
                             NextReservationId, h.hotel_id, c.customer_id)
            IN  /\ freed.ret = TRUE
                /\ again.ret # None
                /\ again.ret[1].status = ACTIVE

\* A one-room hotel holds a CANCELLED reservation and the ACTIVE one that
\* create_reservation has just returned.
C8_Witness ==
    /\ call = "create_reservation"
    /\ ret # None
    /\ \E h \in Range(list_hotels) :
           /\ h.hotel_id = ret[1].hotel_id
           /\ h.total_rooms = 1
           /\ ActiveOf(list_reservations, h.hotel_id) = 1
           /\ \E r \in Range(list_reservations) :
                  r.hotel_id = h.hotel_id /\ r.status = CANCELLED

\* C9 (reservations are never removed): in every step, each reservation of
\* the collection is still in it afterwards under the same id, and delete_hotel
\* and delete_customer leave reservations.json as it was.
C9_NeverRemoved ==
    [][/\ \A r \in Range(list_reservations) :
              \E kept \in Range(load_entities(reservations_json', "Reservation")) :
                  kept.reservation_id = r.reservation_id
       /\ call' \in {"delete_hotel", "delete_customer"} =>
              reservations_json' = reservations_json]_vars

\* delete_hotel has just deleted a hotel and a reservation of that hotel is
\* still in the collection.
C9_Witness ==
    /\ call = "delete_hotel"
    /\ ret = TRUE
    /\ \E r \in Range(list_reservations) : r.hotel_id \notin HotelIds

\* C10 (an invalid partial update is rejected): modify_hotel of a stored hotel
\* with a name or location that is blank, or a total_rooms below 1, returns
\* False and the hotel keeps its fields; modify_customer of a stored customer
\* with a blank name or email returns False and the customer keeps its fields.
C10_InvalidUpdateRejected ==
    /\ \A h \in Range(list_hotels), args \in HotelUpdates :
           LET done == HotelService_modify_hotel(hotels_json, h.hotel_id,
                                                 args[1], args[2], args[3])
               invalid == \/ args[1] # None /\ strip(args[1][1]) = <<>>
                          \/ args[2] # None /\ strip(args[2][1]) = <<>>
                          \/ args[3] # None /\ args[3][1] < 1
           IN  invalid =>
                   /\ done.ret = FALSE
                   /\ Hotel_to_dict(h) \in Range(done.file.items)
                   /\ load_entities(done.file, "Hotel") = list_hotels
    /\ \A c \in Range(list_customers), args \in CustomerUpdates :
           LET done == CustomerService_modify_customer(customers_json, c.customer_id,
                                                       args[1], args[2])
               invalid == \/ args[1] # None /\ strip(args[1][1]) = <<>>
                          \/ args[2] # None /\ strip(args[2][1]) = <<>>
           IN  invalid =>
                   /\ done.ret = FALSE
                   /\ Customer_to_dict(c) \in Range(done.file.items)
                   /\ load_entities(done.file, "Customer") = list_customers

\* modify_hotel has just refused an update of a stored hotel.
C10_Witness ==
    /\ call = "modify_hotel"
    /\ ret = FALSE
    /\ InvalidHotelModification \in Printed(out)
    /\ list_hotels # <<>>

C12_CreatedRetrievable ==
    [][/\ call' = "create_hotel" =>
              HotelService_get_hotel(hotels_json', ret'.hotel_id) = Some(ret')
       /\ call' = "create_customer" =>
              CustomerService_get_customer(customers_json', ret'.customer_id) = Some(ret')
       /\ call' \notin {"modify_hotel", "delete_hotel"} =>
              \A h \in Range(list_hotels) :
                  HotelService_get_hotel(hotels_json', h.hotel_id) = Some(h)
       /\ call' \notin {"modify_customer", "delete_customer"} =>
              \A c \in Range(list_customers) :
                  CustomerService_get_customer(customers_json', c.customer_id) = Some(c)]_vars

\* C20 (capacity ceiling over all operations): every hotel of the collection
\* has at most total_rooms ACTIVE reservations in the reservation collection.
C20_CapacityCeiling ==
    \A h \in Range(list_hotels) :
        ActiveOf(list_reservations, h.hotel_id) <= h.total_rooms

\* C13 (corruption tolerance): load_entities on a JSON list raises nothing
\* and returns one entity per record that meets the validation rules, built
\* from that record, in file order, whatever invalid records and other
\* elements stand between them.
C13_CorruptionTolerance ==
    \A factory \in Factories :
        File(factory).kind = "list" =>
            LET dicts == SelectSeq(File(factory).items, is_dict)
                valid == SelectSeq(dicts, LAMBDA data : ValidRecord(factory, data))
                got == load_entities(File(factory), factory)
            IN  /\ load_list_raises(File(factory)) = ""
                /\ Len(got) = Len(valid)
                /\ \A i \in 1..Len(valid) :
                       /\ got[i] = factory_call(factory, valid[i])
                       /\ ("status" \in DOMAIN valid[i] /\ Trimmed(valid[i])) =>
                              to_dicts(factory, <<got[i]>>) = <<valid[i]>>

\* load_entities has just returned the one valid record of a list whose first
\* record it reported as invalid.
C13_Witness ==
    /\ call = "load_entities"
    /\ ret.raised = ""
    /\ Len(ret.value) = 1
    /\ Len(File(ret.factory).items) = 2
    /\ is_dict(File(ret.factory).items[1])
    /\ ~ValidRecord(ret.factory, File(ret.factory).items[1])
    /\ out = <<InvalidEntity(Path(ret.factory),
                             factory_error(ret.factory, File(ret.factory).items[1]))>>

\* C14, as claimed (empty on an element that is no field-bag): load_list of a
\* list with an element that is not a dict returns the empty list.
C14_EmptyOnNonDict ==
    \A factory \in Factories :
        (/\ File(factory).kind = "list"
         /\ DictPositions(File(factory).items) # 1..Len(File(factory).items)) =>
            load_list(File(factory)) = <<>>

\* C14, amended (elements that are no field-bag are skipped): load_list of a
\* list returns dicts only, as many as the list holds, each of them; the
\* result is empty only when the list holds no dict.
C14_SkipsNonDict ==
    \A factory \in Factories :
        File(factory).kind = "list" =>
            LET items == File(factory).items
                got == load_list(File(factory))
            IN  /\ \A i \in 1..Len(got) : is_dict(got[i])
                /\ \A i \in DictPositions(items) : items[i] \in Range(got)
                /\ Len(got) = Cardinality(DictPositions(items))
                /\ (got = <<>>) = (DictPositions(items) = {})

\* load_list has just returned the record that stands next to a number or a
\* string in the file.
C14_Witness ==
    /\ call = "load_list"
    /\ ret.raised = ""
    /\ Len(ret.value) = 1
    /\ Len(File(ret.factory).items) = 2

\* C15 (non-dict items are skipped one by one): load_list of a list returns
\* its dicts in file order and prints one 'expected dict' line for each
\* element that is not a dict, and no other line.
C15_NonDictSkipped ==
    \A factory \in Factories :
        File(factory).kind = "list" =>
            LET items == File(factory).items
                got == load_list(File(factory))
                lines == load_list_out(File(factory), Path(factory))
            IN  /\ \A i \in DictPositions(items) : got[DictRank(items, i)] = items[i]
                /\ Len(got) = Cardinality(DictPositions(items))
                /\ Len(lines) = Len(items) - Cardinality(DictPositions(items))
                /\ \A k \in 1..Len(lines) :
                       lines[k] = StoreDiag("[ERROR] Invalid item: expected dict.",
                                            Path(factory))

\* load_list has just skipped two elements of hotels.json, printing a line for
\* each.
C15_Witness ==
    /\ call = "load_list"
    /\ ret.raised = ""
    /\ ret.value = <<>>
    /\ Len(out) = 2
    /\ Len(File(ret.factory).items) = 2

\* C16 (whole-file load failures give []): when the file does not exist,
\* cannot be read, is not valid JSON or holds JSON that is not a list,
\* load_list raises nothing and returns [].
C16_LoadFailuresEmpty ==
    \A factory \in Factories :
        File(factory).kind # "list" =>
            /\ load_list_raises(File(factory)) = ""
            /\ load_list(File(factory)) = <<>>

C17_WriteFailureKeepsContent ==
    [][(CouldNotWrite \in Printed(out')) =>
          (/\ load_entities(hotels_json', "Hotel") = list_hotels
           /\ load_entities(customers_json', "Customer") = list_customers
           /\ load_entities(reservations_json', "Reservation") = list_reservations
           /\ (call' = "create_reservation" => ret' # None))]_vars

\* C19 (lost update under interleaving): when a caller saves, what the other
\* callers saved since it loaded is overwritten: a reservation that is in the
\* collection but not in the saver's snapshot is gone after the save, and a
\* reservation that is CANCELLED in the collection but ACTIVE in the snapshot
\* of a saver that creates a reservation is ACTIVE again.
C19_SecondSaveOverwrites ==
    [][\A p \in Procs :
           (procs[p].pc = "save" /\ procs'[p].pc = "idle") =>
               /\ \A r \in Range(list_reservations) :
                      r.reservation_id \notin
                          {old.reservation_id : old \in Range(procs[p].snapshot)} =>
                          r.reservation_id \notin
                              {new.reservation_id :
                                   new \in Range(load_entities(reservations_json',
                                                               "Reservation"))}
               /\ \A r \in Range(list_reservations) :
                      (/\ procs[p].op = "create_reservation"
                       /\ r.status = CANCELLED
                       /\ [r EXCEPT !.status = ACTIVE] \in Range(procs[p].snapshot)) =>
                          [r EXCEPT !.status = ACTIVE] \in
                              Range(load_entities(reservations_json', "Reservation"))]_vars

\* A create_reservation has returned a reservation to its caller and the
\* collection, saved by another caller since, does not hold it.
C19_Witness ==
    \E p \in Procs :
        /\ procs[p].pc = "idle"
        /\ procs[p].op = "create_reservation"
        /\ procs[p].result # None
        /\ procs[p].result[1].reservation_id \notin ReservationIds
        /\ list_reservations # <<>>

\* C21 (created entities meet the data-model constraints): the hotel that
\* create_hotel returns, which is the last record of the file it saved, has a
\* non-empty trimmed name, a non-empty trimmed location and total_rooms >= 1;
\* the customer that create_customer returns and saves has a non-empty
\* trimmed name and email.
C21_CreatedValid ==
    /\ call = "create_hotel" =>
           /\ ret.name # <<>> /\ strip(ret.name) = ret.name
           /\ ret.location # <<>> /\ strip(ret.location) = ret.location
           /\ ret.total_rooms >= 1
           /\ hotels_json.items # <<>>
           /\ Hotel_from_dict(hotels_json.items[Len(hotels_json.items)]) = ret
           /\ Hotel_from_dict_error(hotels_json.items[Len(hotels_json.items)]) = ""
    /\ call = "create_customer" =>
           /\ ret.name # <<>> /\ strip(ret.name) = ret.name
           /\ ret.email # <<>> /\ strip(ret.email) = ret.email
           /\ customers_json.items # <<>>
           /\ Customer_from_dict(customers_json.items[Len(customers_json.items)]) = ret
           /\ Customer_from_dict_error(customers_json.items[Len(customers_json.items)]) = ""

\* C22 (referential integrity at creation time): a reservation that
\* create_reservation or reserve_room has just returned and added to the
\* collection names a hotel of the hotel collection and a customer of the
\* customer collection, neither of which the call changes.
C22_ReferencesExist ==
    (/\ call \in {"create_reservation", "reserve_room"}
     /\ ret # None
     /\ ret[1] \in Range(list_reservations)) =>
        /\ ret[1].hotel_id \in HotelIds
        /\ ret[1].customer_id \in CustomerIds

\* C23 (what a successful create_reservation changes): create_reservation
\* that returns a reservation returns one with the hotel_id and customer_id
\* it was given, status ACTIVE and the uuid just drawn, which no record of
\* reservations.json carries; the collection afterwards is the collection
\* before, every reservation with its fields and in its place, followed by
\* that reservation; hotels.json and customers.json are as they were.
C23_CreateAppendsOne ==
    [][/\ \A hotel_id \in HotelIdInputs, customer_id \in CustomerIdInputs :
              LET done == CreateReservation(hotel_id, customer_id)
              IN  done.ret # None =>
                      /\ done.ret[1] = [reservation_id |-> NextReservationId,
                                        hotel_id |-> hotel_id,
                                        customer_id |-> customer_id,
                                        status |-> ACTIVE]
                      /\ load_entities(done.file, "Reservation") =
                             Append(list_reservations, done.ret[1])
       /\ (call' = "create_reservation" /\ ret' # None) =>
              /\ load_entities(reservations_json', "Reservation") =
                     Append(list_reservations, ret'[1])
              /\ ret'[1].status = ACTIVE
              /\ ret'[1].reservation_id \notin ids_in(reservations_json, "reservation_id")
              /\ ret'[1].hotel_id \in HotelIds
              /\ ret'[1].customer_id \in CustomerIds
              /\ hotels_json' = hotels_json
              /\ customers_json' = customers_json]_vars

\* create_reservation has just added a reservation behind a CANCELLED one of
\* the same hotel, which is still in the collection as it was.
C23_Witness ==
    /\ call = "create_reservation"
    /\ ret # None
    /\ Len(list_reservations) = 2
    /\ list_reservations[2] = ret[1]
    /\ list_reservations[1].status = CANCELLED
    /\ list_reservations[1].hotel_id = ret[1].hotel_id

\* C24 (what a successful cancel_reservation changes): cancel_reservation
\* that returns True leaves a collection of the same length in which the
\* reservation with the given id, ACTIVE before, is CANCELLED with the same
\* reservation_id, hotel_id and customer_id, and every other reservation is
\* as it was, in its place; hotels.json and customers.json are as they were.
C24_CancelChangesStatusOnly ==
    [][/\ \A reservation_id \in ReservationIdInputs :
              LET done == CancelReservation(reservation_id)
                  after == load_entities(done.file, "Reservation")
              IN  done.ret = TRUE =>
                      /\ Len(after) = Len(list_reservations)
                      /\ Cardinality({i \in 1..Len(list_reservations) :
                             list_reservations[i].reservation_id = reservation_id}) = 1
                      /\ \A i \in 1..Len(list_reservations) :
                             IF list_reservations[i].reservation_id = reservation_id
                             THEN /\ list_reservations[i].status = ACTIVE
                                  /\ after[i] = [list_reservations[i]
                                                     EXCEPT !.status = CANCELLED]
                             ELSE after[i] = list_reservations[i]
       /\ (call' = "cancel_reservation" /\ ret' = TRUE) =>
              /\ hotels_json' = hotels_json
              /\ customers_json' = customers_json
              /\ \E reservation_id \in ReservationIdInputs :
                     /\ CancelReservation(reservation_id).ret = TRUE
                     /\ reservations_json' = CancelReservation(reservation_id).file]_vars

\* cancel_reservation has just cancelled the second of two reservations and
\* the first is still ACTIVE.
C24_Witness ==
    /\ call = "cancel_reservation"
    /\ ret = TRUE
    /\ Len(list_reservations) = 2
    /\ list_reservations[1].status = ACTIVE
    /\ list_reservations[2].status = CANCELLED

C26_CapacityInterleaved ==
    \A h \in Range(list_hotels) :
        /\ Len(SelectSeq(list_reservations,
                         LAMBDA r : r.hotel_id = h.hotel_id /\ r.status = ACTIVE))
               <= h.total_rooms
        /\ \A p \in Procs :
               procs[p].pc \in {"save", "write"} =>
                   /\ ActiveOf(procs[p].snapshot, h.hotel_id) <= h.total_rooms
                   /\ ActiveOf(load_entities(procs[p].file, "Reservation"), h.hotel_id)
                          <= h.total_rooms

\* Two create_reservation calls for a hotel with one room have both returned a
\* reservation, each from a load that saw the room free, and the collection
\* holds one ACTIVE reservation of that hotel.
C26_Witness ==
    /\ \A p \in Procs :
           /\ procs[p].pc = "idle"
           /\ procs[p].op = "create_reservation"
           /\ procs[p].result # None
    /\ \E p, q \in Procs :
           procs[p].result[1].reservation_id # procs[q].result[1].reservation_id
    /\ \E h \in Range(list_hotels) :
           /\ h.total_rooms = 1
           /\ ActiveOf(list_reservations, h.hotel_id) = 1
           /\ \A p \in Procs : procs[p].result[1].hotel_id = h.hotel_id

====
